---- MODULE Spec2Model ----
(***************************************************************************)
(* Model of the two HTTP-triggered XLSM -> XLSX conversion handlers of the *)
(* repository:                                                             *)
(*   main          src/XLSM_Convert_Trigger/__init__.py                    *)
(*   convert_xlsm  src/function_app.py                                     *)
(* A deployment runs one of the two handlers; NumReqs requests are served  *)
(* concurrently against one output store.  Strings are sequences of tokens *)
(* (a token is a run of characters that the handlers never split).         *)
(***************************************************************************)
EXTENDS Naturals, Sequences, FiniteSets, TLC

\* ------------------------------------------------------------------ bounds
NumReqs == 2
MaxClock == 1

Reqs == 1..NumReqs

\* ------------------------------------------------------------ input domains
\* Source references, tokenised.  "?" starts the query string.
Urls ==
    { <<"https://h", "/", "a", ".xlsm">>,
      <<"https://h", "/", "a", ".XLSM">>,
      <<"https://h", "/", "a", ".txt">>,
      <<"https://h", "/", "a", ".xlsm", "?", "sig">>,
      <<"https://h", "/", "a", ".txt", "?", "sig", ".xlsm">>,
      <<"https://h", "/", "b", ".xlsm">> }

\* JSON values a field of the request object can hold.
None == [t |-> "none", s |-> <<>>]
EmptyStr == [t |-> "str", s |-> <<>>]
Num == [t |-> "num", s |-> <<>>]
Str(u) == [t |-> "str", s |-> u]
Values == {None, EmptyStr, Num} \cup {Str(u) : u \in Urls}

\* Request bodies: not JSON at all, a JSON array, or a JSON object holding
\* one field (key) with a value.
NoBody == [kind |-> "nobody", key |-> "", val |-> None]
Bodies ==
    { [kind |-> "notjson", key |-> "", val |-> None],
      [kind |-> "array", key |-> "", val |-> None] }
    \cup { [kind |-> "object", key |-> k, val |-> v] :
              k \in {"xlsm_url", "url"}, v \in Values }

\* What one GET of the source can yield: a 2xx with a workbook or with bytes
\* that are no workbook, an HTTP error status, or a transport failure (code 0).
FetchOutcomes ==
    { [ok |-> TRUE, code |-> 200, bytes |-> "wb1"],
      [ok |-> TRUE, code |-> 200, bytes |-> "wb2"],
      [ok |-> TRUE, code |-> 200, bytes |-> "garbage"],
      [ok |-> FALSE, code |-> 404, bytes |-> ""],
      [ok |-> FALSE, code |-> 500, bytes |-> ""],
      [ok |-> FALSE, code |-> 0, bytes |-> ""] }

\* Deployment settings, read-only after process start.
MainEnvs ==
    { [conn_str |-> TRUE, account_name |-> TRUE, account_key |-> TRUE],
      [conn_str |-> TRUE, account_name |-> TRUE, account_key |-> FALSE],
      [conn_str |-> FALSE, account_name |-> FALSE, account_key |-> FALSE] }
AppEnvs ==
    { [conn_str |-> TRUE, account_name |-> TRUE, account_key |-> TRUE],
      [conn_str |-> TRUE, account_name |-> TRUE, account_key |-> FALSE],
      [conn_str |-> TRUE, account_name |-> FALSE, account_key |-> TRUE],
      [conn_str |-> FALSE, account_name |-> TRUE, account_key |-> TRUE] }

OUTPUT_CONTAINER_NAME == "xlsx-output"
CONVERTED_CONTAINER == "converted"

\* ------------------------------------------------------------ pure helpers
\* dict.get(key) on the parsed request object
Get(b, k) == IF b.kind = "object" /\ b.key = k THEN b.val ELSE None

\* Python truthiness of a JSON value: None and "" are falsy
Truthy(v) == ~(v.t = "none" \/ (v.t = "str" /\ v.s = <<>>))

\* str.lower() on one token
LowerTok(tok) == IF tok = ".XLSM" THEN ".xlsm" ELSE tok
Lower(s) == [i \in 1..Len(s) |-> LowerTok(s[i])]

\* str.endswith(".xlsm")
EndsWith(s, suffix) == Len(s) > 0 /\ s[Len(s)] = suffix

\* index of the last occurrence of token tok in s, 0 if none (str.rfind)
LastIndex(s, tok) ==
    LET hits == {i \in 1..Len(s) : s[i] = tok}
    IN IF hits = {} THEN 0 ELSE CHOOSE i \in hits : \A j \in hits : j <= i

\* index of the first occurrence of token tok in s, 0 if none (str.find)
FirstIndex(s, tok) ==
    LET hits == {i \in 1..Len(s) : s[i] = tok}
    IN IF hits = {} THEN 0 ELSE CHOOSE i \in hits : \A j \in hits : i <= j

\* s.split('/')[-1]
LastSegment(s) == SubSeq(s, LastIndex(s, "/") + 1, Len(s))

\* tokens that begin with a dot
IsExtTok(tok) == tok \in {".xlsm", ".XLSM", ".txt", ".xlsx"}

\* os.path.splitext(p)[0]: cut at the last dot unless only dots precede it
SplitextRoot(p) ==
    LET dots == {i \in 1..Len(p) : IsExtTok(p[i])}
        last == IF dots = {} THEN 0 ELSE CHOOSE i \in dots : \A j \in dots : j <= i
    IN IF last > 1 THEN SubSeq(p, 1, last - 1) ELSE p

\* datetime.now(timezone.utc).strftime('%Y%m%d%H%M%S') at clock second c
Strftime(c) ==
    IF c < 10 THEN "2024010112000" \o ToString(c) ELSE "202401011200" \o ToString(c)

\* variant of MainBlobName that drops the timestamp component
MainBlobName_Flat(url, c) ==
    <<"converted/">> \o SplitextRoot(LastSegment(url)) \o <<".xlsx">>

\* main: output_blob_name
MainBlobName(url, c) ==
    <<"converted/">> \o SplitextRoot(LastSegment(url)) \o <<"_", Strftime(c), ".xlsx">>

\* urllib.parse.urlparse(url).path: from the first "/" up to the query
UrlPath(url) ==
    LET q == FirstIndex(url, "?")
        e == IF q = 0 THEN Len(url) ELSE q - 1
        b == FirstIndex(url, "/")
    IN IF b = 0 \/ b > e THEN <<>> ELSE SubSeq(url, b, e)

\* os.path.basename
Basename(p) == SubSeq(p, LastIndex(p, "/") + 1, Len(p))

\* str.replace(".xlsm", ".xlsx"): every occurrence, case-sensitive
ReplaceXlsm(s) == [i \in 1..Len(s) |-> IF s[i] = ".xlsm" THEN ".xlsx" ELSE s[i]]

\* convert_xlsm: xlsx_name
AppBlobName(url) == ReplaceXlsm(Basename(UrlPath(url)))

\* load_workbook(..., data_only=True) succeeds on a workbook container only
Decodable(bytes) == bytes \in {"wb1", "wb2"}

\* wb.save(...): the values-only re-encoding of the decoded workbook
Encode(bytes) == IF bytes = "wb1" THEN "xlsx1" ELSE IF bytes = "wb2" THEN "xlsx2" ELSE ""

\* ------------------------------------------------------------------- state
VARIABLES
    handler,   \* which handler this deployment serves
    env,       \* deployment settings
    clock,     \* UTC wall clock, in seconds
    store,     \* output store: set of objects
    pc,        \* per request: position in the handler
    body,      \* per request: the request body
    name,      \* per request: derived output object name
    stamp,     \* per request: the clock second the name was derived in
    upstream,  \* per request: HTTP status the source answered with (0: none)
    content,   \* per request: fetched bytes
    xlsx,      \* per request: transcoded bytes
    tmp,       \* per request: temporary files on local disk
    log,       \* per request: external calls made so far, in order
    resp       \* per request: the response returned

vars == <<handler, env, clock, store, pc, body, name, stamp, upstream, content, xlsx, tmp, log, resp>>

NoLink == [container |-> "", blob |-> <<>>, sasBlob |-> <<>>]
NoResp == [status |-> 0, json |-> FALSE, fields |-> {}, link |-> NoLink,
           msg |-> "", error |-> "", upstream |-> 0]

\* func.HttpResponse(text, status_code=...)
TextResp(status, msg, error, code) ==
    [status |-> status, json |-> FALSE, fields |-> {}, link |-> NoLink,
     msg |-> msg, error |-> error, upstream |-> code]

\* func.HttpResponse(<json object>, mimetype="application/json", status_code=200)
JsonResp(fields, link) ==
    [status |-> 200, json |-> TRUE, fields |-> fields, link |-> link,
     msg |-> "success", error |-> "", upstream |-> 0]

\* main's catch-all: except Exception
MainInternalError(error) ==
    TextResp(500, "Internal conversion or storage error", error, 0)

\* convert_xlsm's catch-all: except Exception
AppUnhandled(error) == TextResp(500, "Error", error, 0)

\* blob_client.upload_blob(data, overwrite=True)
UploadBlob(s, container, blob, r, bytes) ==
    {o \in s : ~(o.container = container /\ o.blob = blob)}
    \cup {[container |-> container, blob |-> blob, writer |-> r, bytes |-> bytes]}

Finish(r, response) ==
    /\ pc' = [pc EXCEPT ![r] = "done"]
    /\ resp' = [resp EXCEPT ![r] = response]

Init ==
    /\ handler \in {"main", "convert_xlsm"}
    /\ env \in IF handler = "main" THEN MainEnvs ELSE AppEnvs
    /\ clock = 0
    /\ store = {}
    /\ pc = [r \in Reqs |-> "start"]
    /\ body = [r \in Reqs |-> NoBody]
    /\ name = [r \in Reqs |-> <<>>]
    /\ stamp = [r \in Reqs |-> 0]
    /\ upstream = [r \in Reqs |-> 0]
    /\ content = [r \in Reqs |-> ""]
    /\ xlsx = [r \in Reqs |-> ""]
    /\ tmp = [r \in Reqs |-> {}]
    /\ log = [r \in Reqs |-> <<>>]
    /\ resp = [r \in Reqs |-> NoResp]

\* the wall clock advances
Tick ==
    /\ clock < MaxClock
    /\ clock' = clock + 1
    /\ UNCHANGED <<handler, env, store, pc, body, name, content, xlsx, tmp, log, resp, stamp, upstream>>

\* ------------------------------------------------------------------- main
\* 1. Parse input, validate, derive the output name
MainParse(r) ==
    /\ handler = "main"
    /\ pc[r] = "start"
    /\ \E b \in Bodies :
        LET xlsm_url == Get(b, "xlsm_url") IN
        /\ body' = [body EXCEPT ![r] = b]
        /\ log' = [log EXCEPT ![r] = Append(@, "validate")]
        /\ IF b.kind = "notjson"
           THEN /\ Finish(r, TextResp(400, "Please pass a JSON payload with 'xlsm_url'", "", 0))
                /\ UNCHANGED <<name, stamp>>
           ELSE IF b.kind # "object"
           THEN /\ Finish(r, MainInternalError("AttributeError"))
                /\ UNCHANGED <<name, stamp>>
           ELSE IF ~Truthy(xlsm_url)
           THEN /\ Finish(r, TextResp(400, "Invalid or missing 'xlsm_url'", "", 0))
                /\ UNCHANGED <<name, stamp>>
           ELSE IF xlsm_url.t # "str"
           THEN /\ Finish(r, MainInternalError("AttributeError"))
                /\ UNCHANGED <<name, stamp>>
           ELSE IF ~EndsWith(Lower(xlsm_url.s), ".xlsm")
           THEN /\ Finish(r, TextResp(400, "Invalid or missing 'xlsm_url'", "", 0))
                /\ UNCHANGED <<name, stamp>>
           ELSE /\ name' = [name EXCEPT ![r] = MainBlobName(xlsm_url.s, clock)]
                /\ stamp' = [stamp EXCEPT ![r] = clock]
                /\ pc' = [pc EXCEPT ![r] = "download"]
                /\ UNCHANGED resp
    /\ UNCHANGED <<handler, env, clock, store, content, xlsx, tmp, upstream>>

\* 2. Download the XLSM file
MainDownload(r) ==
    /\ handler = "main"
    /\ pc[r] = "download"
    /\ log' = [log EXCEPT ![r] = Append(@, "fetch")]
    /\ \E o \in FetchOutcomes :
        /\ upstream' = [upstream EXCEPT ![r] = o.code]
        /\ IF o.ok
           THEN /\ content' = [content EXCEPT ![r] = o.bytes]
                /\ pc' = [pc EXCEPT ![r] = "convert"]
                /\ UNCHANGED resp
           ELSE /\ IF o.code # 0
                   THEN Finish(r, TextResp(400, "Download failed due to HTTP Error", "HTTPError", o.code))
                   ELSE Finish(r, MainInternalError("ConnectionError"))
                /\ UNCHANGED content
    /\ UNCHANGED <<handler, env, clock, store, body, name, xlsx, tmp, stamp>>

\* variant of MainConvert in which a failed load does not end the request
MainConvert_NoAbort(r) ==
    /\ handler = "main"
    /\ pc[r] = "convert"
    /\ log' = [log EXCEPT ![r] = Append(@, "transcode")]
    /\ xlsx' = [xlsx EXCEPT ![r] = Encode(content[r])]
    /\ pc' = [pc EXCEPT ![r] = "upload"]
    /\ UNCHANGED resp
    /\ UNCHANGED <<handler, env, clock, store, body, name, content, tmp, stamp, upstream>>

\* 3. Convert XLSM to XLSX in memory
MainConvert(r) ==
    /\ handler = "main"
    /\ pc[r] = "convert"
    /\ log' = [log EXCEPT ![r] = Append(@, "transcode")]
    /\ IF Decodable(content[r])
       THEN /\ xlsx' = [xlsx EXCEPT ![r] = Encode(content[r])]
            /\ pc' = [pc EXCEPT ![r] = "upload"]
            /\ UNCHANGED resp
       ELSE /\ Finish(r, MainInternalError("InvalidFile"))
            /\ UNCHANGED xlsx
    /\ UNCHANGED <<handler, env, clock, store, body, name, content, tmp, stamp, upstream>>

\* variant of MainUpload that looks for the account key before uploading
MainUpload_KeyFirst(r) ==
    /\ handler = "main"
    /\ pc[r] = "upload"
    /\ IF ~env.conn_str
       THEN /\ Finish(r, MainInternalError("AzureWebJobsStorage connection string is not set."))
            /\ UNCHANGED <<store, log>>
       ELSE IF ~env.account_key
       THEN /\ Finish(r, MainInternalError("Account key could not be retrieved from connection string."))
            /\ UNCHANGED <<store, log>>
       ELSE /\ log' = [log EXCEPT ![r] = Append(@, "publish")]
            /\ \/ /\ store' = UploadBlob(store, OUTPUT_CONTAINER_NAME, name[r], r, xlsx[r])
                  /\ pc' = [pc EXCEPT ![r] = "sas"]
                  /\ UNCHANGED resp
               \/ /\ Finish(r, MainInternalError("UploadFailed"))
                  /\ UNCHANGED store
    /\ UNCHANGED <<handler, env, clock, body, name, content, xlsx, tmp, stamp, upstream>>

\* 4. Upload the new XLSX file to Blob Storage
MainUpload(r) ==
    /\ handler = "main"
    /\ pc[r] = "upload"
    /\ IF ~env.conn_str
       THEN /\ Finish(r, MainInternalError("AzureWebJobsStorage connection string is not set."))
            /\ UNCHANGED <<store, log>>
       ELSE /\ log' = [log EXCEPT ![r] = Append(@, "publish")]
            /\ \/ /\ store' = UploadBlob(store, OUTPUT_CONTAINER_NAME, name[r], r, xlsx[r])
                  /\ pc' = [pc EXCEPT ![r] = "sas"]
                  /\ UNCHANGED resp
               \/ /\ Finish(r, MainInternalError("UploadFailed"))
                  /\ UNCHANGED store
    /\ UNCHANGED <<handler, env, clock, body, name, content, xlsx, tmp, stamp, upstream>>

\* 5./6. Generate the SAS URL and return it
MainSas(r) ==
    /\ handler = "main"
    /\ pc[r] = "sas"
    /\ IF ~env.account_key
       THEN /\ Finish(r, MainInternalError("Account key could not be retrieved from connection string."))
            /\ UNCHANGED log
       ELSE /\ log' = [log EXCEPT ![r] = Append(@, "sign")]
            /\ Finish(r, JsonResp({"status", "converted_url"},
                                  [container |-> OUTPUT_CONTAINER_NAME,
                                   blob |-> name[r], sasBlob |-> name[r]]))
    /\ UNCHANGED <<handler, env, clock, store, body, name, content, xlsx, tmp, stamp, upstream>>

\* ----------------------------------------------------------- convert_xlsm
\* Parse JSON
AppParse(r) ==
    /\ handler = "convert_xlsm"
    /\ pc[r] = "start"
    /\ \E b \in Bodies :
        LET file_url == Get(b, "url") IN
        /\ body' = [body EXCEPT ![r] = b]
        /\ log' = [log EXCEPT ![r] = Append(@, "validate")]
        /\ IF b.kind = "notjson"
           THEN Finish(r, AppUnhandled("ValueError"))
           ELSE IF b.kind # "object"
           THEN Finish(r, AppUnhandled("AttributeError"))
           ELSE IF ~Truthy(file_url)
           THEN Finish(r, TextResp(400, "Missing 'url' in request.", "", 0))
           ELSE /\ pc' = [pc EXCEPT ![r] = "download"]
                /\ UNCHANGED resp
    /\ UNCHANGED <<handler, env, clock, store, name, content, xlsx, tmp, stamp, upstream>>

\* Download XLSM file, save to temporary file
AppDownload(r) ==
    /\ handler = "convert_xlsm"
    /\ pc[r] = "download"
    /\ log' = [log EXCEPT ![r] = Append(@, "fetch")]
    /\ LET file_url == Get(body[r], "url") IN
       IF file_url.t # "str"
       THEN /\ Finish(r, TextResp(500, "Download error", "MissingSchema", 0))
            /\ UNCHANGED <<content, tmp, upstream>>
       ELSE \E o \in FetchOutcomes :
            /\ upstream' = [upstream EXCEPT ![r] = o.code]
            /\ IF o.ok
               THEN /\ content' = [content EXCEPT ![r] = o.bytes]
                    /\ tmp' = [tmp EXCEPT ![r] = @ \cup {"temp_xlsm"}]
                    /\ pc' = [pc EXCEPT ![r] = "convert"]
                    /\ UNCHANGED resp
               ELSE /\ Finish(r, TextResp(500, "Download error",
                                          IF o.code # 0 THEN "HTTPError" ELSE "ConnectionError",
                                          o.code))
                    /\ UNCHANGED <<content, tmp>>
    /\ UNCHANGED <<handler, env, clock, store, body, name, xlsx, stamp>>

\* Convert XLSM -> XLSX through temporary files
AppConvert(r) ==
    /\ handler = "convert_xlsm"
    /\ pc[r] = "convert"
    /\ log' = [log EXCEPT ![r] = Append(@, "transcode")]
    /\ IF Decodable(content[r])
       THEN /\ xlsx' = [xlsx EXCEPT ![r] = Encode(content[r])]
            /\ tmp' = [tmp EXCEPT ![r] = @ \cup {"temp_xlsx"}]
            /\ pc' = [pc EXCEPT ![r] = "upload"]
            /\ UNCHANGED resp
       ELSE /\ Finish(r, TextResp(500, "openpyxl error", "InvalidFile", 0))
            /\ UNCHANGED <<xlsx, tmp>>
    /\ UNCHANGED <<handler, env, clock, store, body, name, content, stamp, upstream>>

\* Load environment variables, generate new filename, upload XLSX to blob
AppUpload(r) ==
    /\ handler = "convert_xlsm"
    /\ pc[r] = "upload"
    /\ IF ~env.conn_str \/ ~env.account_name \/ ~env.account_key
       THEN /\ Finish(r, TextResp(500, "Azure storage settings missing.", "", 0))
            /\ UNCHANGED <<store, log, name>>
       ELSE /\ name' = [name EXCEPT ![r] = AppBlobName(Get(body[r], "url").s)]
            /\ log' = [log EXCEPT ![r] = Append(@, "publish")]
            /\ \/ /\ store' = UploadBlob(store, CONVERTED_CONTAINER, name'[r], r, xlsx[r])
                  /\ pc' = [pc EXCEPT ![r] = "sas"]
                  /\ UNCHANGED resp
               \/ /\ Finish(r, AppUnhandled("UploadFailed"))
                  /\ UNCHANGED store
    /\ UNCHANGED <<handler, env, clock, body, content, xlsx, tmp, stamp, upstream>>

\* SAS URL generation, cleanup of the temp files, success response
AppSas(r) ==
    /\ handler = "convert_xlsm"
    /\ pc[r] = "sas"
    /\ log' = [log EXCEPT ![r] = Append(@, "sign")]
    /\ tmp' = [tmp EXCEPT ![r] = @ \ {"temp_xlsm", "temp_xlsx"}]
    /\ Finish(r, JsonResp({"status", "xlsx_url"},
                          [container |-> CONVERTED_CONTAINER,
                           blob |-> name[r], sasBlob |-> name[r]]))
    /\ UNCHANGED <<handler, env, clock, store, body, name, content, xlsx, stamp, upstream>>

Next ==
    \/ Tick
    \/ \E r \in Reqs : MainParse(r)
    \/ \E r \in Reqs : MainDownload(r)
    \/ \E r \in Reqs : MainConvert(r)
    \/ \E r \in Reqs : MainUpload(r)
    \/ \E r \in Reqs : MainSas(r)
    \/ \E r \in Reqs : AppParse(r)
    \/ \E r \in Reqs : AppDownload(r)
    \/ \E r \in Reqs : AppConvert(r)
    \/ \E r \in Reqs : AppUpload(r)
    \/ \E r \in Reqs : AppSas(r)

Spec == Init /\ [][Next]_vars

\* ------------------------------------------------------------ vocabulary
Done(r) == pc[r] = "done"
Stages == <<"validate", "fetch", "transcode", "publish", "sign">>
IsPrefix(s, t) == Len(s) <= Len(t) /\ \A i \in 1..Len(s) : s[i] = t[i]
InLog(r, stage) == \E i \in 1..Len(log[r]) : log[r][i] = stage
SourceKey == IF handler = "main" THEN "xlsm_url" ELSE "url"
Source(r) == Get(body[r], SourceKey)
Container == IF handler = "main" THEN OUTPUT_CONTAINER_NAME ELSE CONVERTED_CONTAINER
ObjectsAt(blob) == {o \in store : o.container = Container /\ o.blob = blob}
WrittenBy(r) == {o \in store : o.writer = r}
AccountKeyError == "Account key could not be retrieved from connection string."
SettingsMissing == "Azure storage settings missing."
PathEndsXlsm(url) == EndsWith(Lower(UrlPath(url)), ".xlsm")
HasStringSource(r) ==
    body[r].kind = "object" /\ Source(r).t = "str" /\ Source(r).s # <<>>

\* -------------------------------------------------------------------- C1
\* C1: the external calls of a request are a prefix of validate, fetch,
\* transcode, publish, sign (each at most once, in order); a request that
\* ends without success has returned 400 or 500, carries no link and made no
\* signing call; bytes that do not decode end the request with no upload; a
\* failed fetch ends it with no transcode; a failed upload ends it with no
\* signing call, no object of its own and no success; success means all five
\* stages ran.
C1_FailureShortCircuits ==
    \A r \in Reqs :
        /\ IsPrefix(log[r], Stages)
        /\ Done(r) => resp[r].status \in {200, 400, 500}
        /\ ~Done(r) => resp[r] = NoResp
        /\ (Done(r) /\ resp[r].status # 200) =>
              /\ ~InLog(r, "sign")
              /\ resp[r].link = NoLink
              /\ resp[r].fields = {}
        /\ (InLog(r, "fetch") /\ content[r] = "") =>
              /\ Done(r) /\ resp[r].status # 200
              /\ ~InLog(r, "transcode")
              /\ WrittenBy(r) = {}
        /\ (InLog(r, "transcode") /\ ~Decodable(content[r])) =>
              /\ Done(r) /\ resp[r].status # 200
              /\ ~InLog(r, "publish")
              /\ WrittenBy(r) = {}
        /\ resp[r].error = "UploadFailed" =>
              /\ Done(r) /\ resp[r].status # 200
              /\ WrittenBy(r) = {}
        /\ (Done(r) /\ resp[r].status = 200) => log[r] = Stages
        /\ WrittenBy(r) # {} => InLog(r, "publish")

\* a request whose fetched bytes were no workbook has ended with status 500
C1_Witness ==
    \E r \in Reqs :
        /\ Done(r)
        /\ content[r] = "garbage"
        /\ log[r] = <<"validate", "fetch", "transcode">>
        /\ resp[r].status = 500

\* -------------------------------------------------------------------- C2
\* C2: a response with status 200 means the object exists in the output
\* store under the derived name, and its body is a JSON object with exactly
\* the fields status and converted_url, the link naming and signing that
\* same object; no other response carries fields or a link.
C2_SuccessShape ==
    \A r \in Reqs :
        /\ (Done(r) /\ resp[r].status = 200) =>
              /\ ObjectsAt(name[r]) # {}
              /\ resp[r].json
              /\ resp[r].fields = {"status", "converted_url"}
              /\ resp[r].link.container = Container
              /\ resp[r].link.blob = name[r]
              /\ resp[r].link.sasBlob = name[r]
        /\ resp[r].status # 200 =>
              /\ resp[r].fields = {}
              /\ resp[r].link = NoLink

\* -------------------------------------------------------------------- C3
\* C3: a request whose source reference is a non-empty string that does not
\* end in .xlsm (neither the reference nor its path, case-insensitively) is
\* answered with status 400 and no fetch is attempted.
C3_UnsupportedTypeNoFetch ==
    \A r \in Reqs :
        ( /\ pc[r] # "start"
          /\ HasStringSource(r)
          /\ ~EndsWith(Lower(Source(r).s), ".xlsm")
          /\ ~PathEndsXlsm(Source(r).s) )
        => /\ Done(r)
           /\ resp[r].status = 400
           /\ ~InLog(r, "fetch")

\* -------------------------------------------------------------------- C4
\* C4: a request whose body is not JSON, is JSON but no object, or lacks a
\* non-empty string source field is answered with status 400 and no fetch
\* is attempted.
C4_MalformedIs400 ==
    \A r \in Reqs :
        (pc[r] # "start" /\ ~HasStringSource(r))
        => /\ Done(r)
           /\ resp[r].status = 400
           /\ ~InLog(r, "fetch")

\* -------------------------------------------------------------------- C5
\* the request ended because the signing credential (account key) is absent
CredentialFault(r) ==
    /\ Done(r)
    /\ ~env.account_key
    /\ \/ resp[r].error = AccountKeyError
       \/ resp[r].msg = SettingsMissing

\* C5 as stated: whenever a request ends on the absent signing credential,
\* the status is 500, the upload has already been made and the object is in
\* the output store under the derived name.
C5_Original ==
    \A r \in Reqs :
        CredentialFault(r) =>
            /\ resp[r].status = 500
            /\ InLog(r, "publish")
            /\ ObjectsAt(name[r]) # {}

\* C5 amended: in main, a request whose fetch, transcode and upload succeeded
\* while the account key is absent ends with status 500 naming the account
\* key, after the upload, with the object present under its derived name; in
\* convert_xlsm a request that got past transcoding while the account key is
\* absent ends with status 500 (settings missing) before any upload.
C5_Amended ==
    \A r \in Reqs :
        /\ (handler = "main" /\ Done(r) /\ ~env.account_key
              /\ InLog(r, "publish") /\ resp[r].error # "UploadFailed") =>
              /\ resp[r].status = 500
              /\ resp[r].error = AccountKeyError
              /\ resp[r].link = NoLink
              /\ ObjectsAt(name[r]) # {}
        /\ (handler = "main" /\ resp[r].error = AccountKeyError) =>
              /\ log[r] = <<"validate", "fetch", "transcode", "publish">>
              /\ ObjectsAt(name[r]) # {}
        /\ (handler = "convert_xlsm" /\ Done(r) /\ ~env.account_key
              /\ InLog(r, "transcode") /\ Decodable(content[r])) =>
              /\ resp[r].status = 500
              /\ resp[r].msg = SettingsMissing
              /\ ~InLog(r, "publish")
              /\ WrittenBy(r) = {}

\* main has uploaded the object and then ended on the absent account key
C5_Witness ==
    \E r \in Reqs :
        /\ handler = "main"
        /\ Done(r)
        /\ resp[r].status = 500
        /\ resp[r].error = AccountKeyError
        /\ \E o \in ObjectsAt(name[r]) : o.writer = r

\* -------------------------------------------------------------------- C6
\* C6: when the source answers with an HTTP error status, the request ends
\* with status 400 or 502, the body surfaces the upstream status, and
\* neither transcode nor publish is attempted.
C6_FetchErrorStatus ==
    \A r \in Reqs :
        (InLog(r, "fetch") /\ upstream[r] \notin {0, 200}) =>
            /\ Done(r)
            /\ resp[r].status \in {400, 502}
            /\ resp[r].upstream = upstream[r]
            /\ ~InLog(r, "transcode")
            /\ ~InLog(r, "publish")

\* -------------------------------------------------------------------- C7
\* C7: main's source-type check accepts a string reference exactly when its
\* path component, query string ignored, ends in .xlsm case-insensitively.
C7_PathSuffixCheck ==
    \A r \in Reqs :
        (handler = "main" /\ pc[r] # "start" /\ HasStringSource(r)) =>
            (PathEndsXlsm(Source(r).s) <=> ~(Done(r) /\ log[r] = <<"validate">>))

\* -------------------------------------------------------------------- C8
\* C8: in convert_xlsm (flat naming), after two successful conversions of
\* the same source reference exactly one object exists at {base}.xlsx and
\* the two requests left no other object.
C8_FlatIdempotent ==
    \A r1, r2 \in Reqs :
        ( /\ handler = "convert_xlsm"
          /\ r1 # r2
          /\ Done(r1) /\ resp[r1].status = 200
          /\ Done(r2) /\ resp[r2].status = 200
          /\ Source(r1) = Source(r2) )
        => LET base == SplitextRoot(Basename(UrlPath(Source(r1).s)))
               path == base \o <<".xlsx">>
           IN /\ Cardinality(ObjectsAt(path)) = 1
              /\ WrittenBy(r1) \cup WrittenBy(r2) \subseteq ObjectsAt(path)

\* -------------------------------------------------------------------- C9
\* C9: in convert_xlsm, a request that has returned its response has left no
\* temporary file behind.
C9_TempFilesDeleted ==
    \A r \in Reqs :
        (handler = "convert_xlsm" /\ Done(r)) => tmp[r] = {}

\* ------------------------------------------------------------------- C10
Derived(r) == name[r] # <<>>
Base(r) == SplitextRoot(LastSegment(Source(r).s))
Uploaded(r) == InLog(r, "publish") /\ resp[r].error # "UploadFailed"
AloneInSecond(r) ==
    \A r2 \in Reqs \ {r} :
        Derived(r2) => ~(Base(r2) = Base(r) /\ stamp[r2] = stamp[r])

\* C10: in main, a request that has uploaded and shares its (base name, UTC
\* second of derivation) with no other request owns its object path: the
\* object there is the one it wrote, holding the bytes it transcoded, from
\* the upload on and in particular when it returns 200 with the link to it;
\* hence no such request's object is overwritten by another conversion.
C10_NoOverwriteAcrossSeconds ==
    handler = "main" =>
        \A r \in Reqs :
            (Uploaded(r) /\ AloneInSecond(r)) =>
                /\ ObjectsAt(name[r]) =
                      {[container |-> OUTPUT_CONTAINER_NAME, blob |-> name[r],
                        writer |-> r, bytes |-> xlsx[r]]}
                /\ (Done(r) /\ resp[r].status = 200) => resp[r].link.blob = name[r]

\* two conversions of the same base name in different seconds both returned
\* 200 and both objects are in the store
C10_Witness ==
    /\ handler = "main"
    /\ \E r1, r2 \in Reqs :
        /\ r1 # r2
        /\ Done(r1) /\ resp[r1].status = 200
        /\ Done(r2) /\ resp[r2].status = 200
        /\ Base(r1) = Base(r2)
        /\ stamp[r1] # stamp[r2]
        /\ \E o \in ObjectsAt(name[r1]) : o.writer = r1
        /\ \E o \in ObjectsAt(name[r2]) : o.writer = r2
====
